---- MODULE Spec2Model ----
(***************************************************************************)
(* A model of talknet_asd/asd_pipeline.py: face detection and greedy IOU   *)
(* tracking (FaceProcessor), the crop window (crop_video), multi-duration  *)
(* scoring (ActiveSpeakerDetector.evaluate_network), score smoothing       *)
(* (visualization), the pipeline driver (Pipeline.run) and the working     *)
(* directories of Pipeline instances.                                      *)
(*                                                                         *)
(* Python lists are sequences; Python's 0-based index i is position i+1.   *)
(* Confidences are in tenths (0.9 is 9).  Interpolated boxes and           *)
(* confidences are exact rationals kept as integers multiplied by          *)
(* InterpScale.  Scores are integers; rounded scores are in tenths.  The   *)
(* crop's half-sizes and centres are doubled, so that they are integers.   *)
(***************************************************************************)
EXTENDS Integers, Sequences, FiniteSets, TLC

VARIABLES
    \* ---- FaceProcessor.detect_faces / track_faces / track_shot
    pc,              \* position of the tracking run
    detOut,          \* what DeepFace.extract_faces does on each frame
    scenes,          \* the shot list of scenes_detect: <<start, end>> pairs
    min_track,       \* args.min_track
    num_failed_det,  \* args.num_failed_det
    detections,      \* the list detect_faces returns, mutated by track_shot
    shotIdx,         \* position of track_faces' loop over scenes (0-based)
    all_tracks,      \* track_faces' all_tracks
    trackShot,       \* for each emitted track, the index of the shot whose call emitted it
    cands,           \* every candidate track built so far, in order
    invoked,         \* indices of the shots track_shot was called on
    calls,           \* per call of track_shot: the shot, the detections handed
                     \* to it, the passes of "while True" begun, whether it returned
    \* ---- evaluate_network / visualization (one track)
    spc,             \* position of the scoring run
    audioIn,         \* MFCC frames of the track's audio slice
    cropLen,         \* frames of the track's crop (len(track["frame"]))
    audioLen,        \* audio_feature.shape[0]
    videoLen,        \* video_feature.shape[0]
    length,          \* length, in seconds, as <<numerator, denominator>>
    all_score,       \* the list of per-duration score series
    srcFrames,       \* for each series, the crop frame each score was computed from
    final,           \* all_scores[tidx]: the averaged, rounded series (tenths)
    shown,           \* visualization: per local index the window it averaged
    \* ---- Pipeline.run
    rpc,             \* the stage run() is at
    nTracks,         \* tracks the run's tracker found
    cropped,         \* crop_video calls completed in video_tracks
    executed,        \* stages started, in order
    exits,           \* <<stage, exit status>> of every media tool invocation
    dirExists,       \* save_path exists
    raised,          \* the exception a stage raised ("none" if none)
    propagated,      \* the exception run() raised to its caller ("none" if none)
    \* ---- FaceProcessor.crop_video (one track)
    cpc,             \* position of the cropping call
    cropTrack,       \* track["bbox"]: one box <<x0, y0, x1, y1>> per frame
    dets,            \* dets["s"], dets["x"], dets["y"], each value doubled
    cropIdx,         \* fidx of the loop over track["frame"]
    crops,           \* per frame done: the padding and the region cut out
    \* ---- Pipeline instances and the cache directory
    clock,           \* datetime.now(), in whole seconds
    cache_dir,       \* for each directory in the cache, its files and their writers
    inst             \* per Pipeline instance: where it is, its save_path, stages written

trackVars == <<pc, detOut, scenes, min_track, num_failed_det, detections, shotIdx,
               all_tracks, trackShot, cands, invoked, calls>>
scoreVars == <<spc, audioIn, cropLen, audioLen, videoLen, length, all_score, srcFrames,
               final, shown>>
runVars   == <<rpc, nTracks, cropped, executed, exits, dirExists, raised, propagated>>
cropVars  == <<cpc, cropTrack, dets, cropIdx, crops>>
dirVars   == <<clock, cache_dir, inst>>
vars      == <<trackVars, scoreVars, runVars, cropVars, dirVars>>

\* ---------------------------------------------------------------- bounds
NumFrames    == 4   \* extracted frames of the video
MaxMinTrack  == 2   \* args.min_track ranges over 1..MaxMinTrack

\* The values of args.num_failed_det: bridging no gap, or a gap of one frame.
FailedDetValues == 1..2
MaxVideoFrames == 30   \* frames of a track's crop
MaxAudioFeat   == 125  \* MFCC frames of a track's audio
MaxTracks      == 2    \* tracks a run finds
MaxCropFrames  == 7    \* frames of the track crop_video is given
MaxSecond      == 1    \* the clock runs over seconds 0..MaxSecond
MaxStages      == 2    \* stages of run() that write into the working directory
FrameHeight    == 12   \* rows of an extracted frame
FrameWidth     == 16   \* columns of an extracted frame

\* ------------------------------------------------------ program constants
audioRate     == 100  \* audio features per second
videoRate     == 25   \* video frames per second
smoothBack    == 2    \* visualization: fidx - 2
smoothAhead   == 3    \* visualization: fidx + 3
iouThresNum   == 1  \* iouThres = 0.5 = iouThresNum / iouThresDen
iouThresDen   == 2
confThres     == 5  \* confidence < 0.5, in tenths
min_face_size == 1  \* Pipeline.__init__ default
kernel_size   == 13 \* signal.medfilt(..., kernel_size=13)

\* ---------------------------------------------------------------- helpers
Min(a, b) == IF a < b THEN a ELSE b
Max(a, b) == IF a > b THEN a ELSE b
Last(s)   == s[Len(s)]

RECURSIVE SumSeq(_)
SumSeq(s) == IF s = <<>> THEN 0 ELSE s[1] + SumSeq(Tail(s))

RECURSIVE Factorial(_)
Factorial(n) == IF n <= 1 THEN 1 ELSE n * Factorial(n - 1)

\* Python's clamping of one slice bound k for a list of length n.
PyBound(k, n) == IF k < 0 THEN Max(k + n, 0) ELSE Min(k, n)

\* The 0-based indices s[start:stop] selects.
PySliceIdx(n, start, stop) ==
    {j \in 0..(n - 1) : PyBound(start, n) <= j /\ j < PyBound(stop, n)}

\* s[start:stop]
PySlice(s, start, stop) ==
    LET lo == PyBound(start, Len(s))
        hi == PyBound(stop, Len(s))
    IN  IF hi <= lo THEN <<>> ELSE SubSeq(s, lo + 1, hi)

\* list.remove(x): drops the first element equal to x.
RECURSIVE ListRemove(_, _)
ListRemove(s, x) ==
    IF s = <<>> THEN <<>>
    ELSE IF s[1] = x THEN Tail(s)
    ELSE <<s[1]>> \o ListRemove(Tail(s), x)

\* ------------------------------------------------- the detector's answers
faceA     == [facial_area |-> [x |-> 0, y |-> 0, w |-> 4, h |-> 4], confidence |-> 9]
faceB     == [facial_area |-> [x |-> 1, y |-> 0, w |-> 4, h |-> 4], confidence |-> 9]
faceC     == [facial_area |-> [x |-> 10, y |-> 10, w |-> 4, h |-> 4], confidence |-> 9]
faceLow   == [facial_area |-> [x |-> 0, y |-> 0, w |-> 4, h |-> 4], confidence |-> 4]
faceFlat  == [facial_area |-> [x |-> 1, y |-> 0, w |-> 0, h |-> 4], confidence |-> 9]
faceNoKey == [facial_area |-> [x |-> 0, y |-> 0], confidence |-> 9]

Threw     == [throws |-> TRUE, faces |-> <<>>]
Found(fs) == [throws |-> FALSE, faces |-> fs]

\* What extract_faces may do on one frame: throw, or return a list of faces
\* (none that counts, one face, or three of which the first and last overlap).
FrameResults ==
    { Threw,
      Found(<<faceFlat>>),
      Found(<<faceNoKey, faceA, faceLow>>),
      Found(<<faceA, faceC, faceB>>) }

\* ------------------------------------------------------------ detect_faces
KeepFace(face) ==
    /\ {"x", "y", "w", "h"} \subseteq DOMAIN face.facial_area
    /\ ~(face.confidence < confThres)
    /\ ~(face.facial_area.w <= 0 \/ face.facial_area.h <= 0)

MkDetection(fidx, face) ==
    LET a == face.facial_area
    IN  [frame |-> fidx, bbox |-> <<a.x, a.y, a.x + a.w, a.y + a.h>>,
         conf |-> face.confidence]

RECURSIVE FrameDetections(_, _)
FrameDetections(fidx, faces) ==
    IF faces = <<>> THEN <<>>
    ELSE IF KeepFace(faces[1])
         THEN <<MkDetection(fidx, faces[1])>> \o FrameDetections(fidx, Tail(faces))
         ELSE FrameDetections(fidx, Tail(faces))

\* What the loop body does with frame fidx: an exception skips the append.
DetectStep(acc, fidx, res) ==
    IF res.throws THEN acc
    ELSE Append(acc, FrameDetections(fidx, res.faces))

RECURSIVE DetectLoop(_, _, _)
DetectLoop(out, fidx, acc) ==
    IF fidx >= Len(out) THEN acc
    ELSE DetectLoop(out, fidx + 1, DetectStep(acc, fidx, out[fidx + 1]))

\* ------------------------------------------------- the scene detector's answer
\* The shots that cutting the video before each frame of cuts gives, as
\* inclusive <<start, end>> ranges, ordered and non-overlapping.
RECURSIVE ShotsFrom(_, _)
ShotsFrom(start, cuts) ==
    IF start >= NumFrames THEN <<>>
    ELSE LET later == {c \in cuts : c > start}
             nxt   == IF later = {} THEN NumFrames
                      ELSE CHOOSE c \in later : \A d \in later : c <= d
         IN  <<<<start, nxt - 1>>>> \o ShotsFrom(nxt, cuts)

\* No cut, or one cut before any frame but the first.
SceneLists == {ShotsFrom(0, cuts) : cuts \in {{}} \cup {{c} : c \in 1..(NumFrames - 1)}}

\* -------------------------------------------------------------- track_shot
\* <<interArea, boxAArea + boxBArea - interArea>>: the IOU as a fraction.
bb_intersection_over_union(boxA, boxB) ==
    LET xA == Max(boxA[1], boxB[1])
        yA == Max(boxA[2], boxB[2])
        xB == Min(boxA[3], boxB[3])
        yB == Min(boxA[4], boxB[4])
        interArea == Max(0, xB - xA) * Max(0, yB - yA)
        boxAArea  == (boxA[3] - boxA[1]) * (boxA[4] - boxA[2])
        boxBArea  == (boxB[3] - boxB[1]) * (boxB[4] - boxB[2])
    IN  <<interArea, boxAArea + boxBArea - interArea>>

\* iou > iouThres
IouAboveThres(iou) == iou[1] * iouThresDen > iouThresNum * iou[2]

\* face["frame"] - track[-1]["frame"] <= self.args.num_failed_det
WithinGap(face, track) == face.frame - Last(track).frame <= num_failed_det

\* A tracker that adopts a face and leaves it in the frame's list.
AdoptKeepingFace(frameFaces, face) == frameFaces

\* What adopting a face does to the frame's list.
Adopt(frameFaces, face) == ListRemove(frameFaces, face)

\* "for face in frameFaces", the iterator at 0-based index i.  The list is
\* mutated under the iterator: after a removal the iterator still advances,
\* so the element that followed the removed one is not visited.
RECURSIVE ScanFaces(_, _, _)
ScanFaces(frameFaces, i, track) ==
    IF i >= Len(frameFaces) THEN [faces |-> frameFaces, track |-> track]
    ELSE LET face == frameFaces[i + 1]
         IN  IF track = <<>>
             THEN ScanFaces(Adopt(frameFaces, face), i + 1, <<face>>)
             ELSE IF WithinGap(face, track)
             THEN IF IouAboveThres(bb_intersection_over_union(face.bbox, Last(track).bbox))
                  THEN ScanFaces(Adopt(frameFaces, face), i + 1, Append(track, face))
                  ELSE ScanFaces(frameFaces, i + 1, track)
             ELSE [faces |-> frameFaces, track |-> track]

\* A scan that stops after the first frame's list.
ScanFirstFrameOnly(pool, p, hi, track) ==
    IF p > hi THEN [pool |-> pool, track |-> track]
    ELSE LET r == ScanFaces(pool[p], 0, track)
         IN  [pool |-> [pool EXCEPT ![p] = r.faces], track |-> r.track]

\* "for frameFaces in sceneFaces" over positions p..hi of the detections.
RECURSIVE ScanFrames(_, _, _, _)
ScanFrames(pool, p, hi, track) ==
    IF p > hi THEN [pool |-> pool, track |-> track]
    ELSE LET r == ScanFaces(pool[p], 0, track)
         IN  ScanFrames([pool EXCEPT ![p] = r.faces], p + 1, hi, r.track)

\* Interpolated values are multiplied by this; every gap between two
\* consecutive frames of a track divides it.
InterpScale == Factorial(num_failed_det)

\* interp1d(xs, ys)(f) for linear interpolation of a 1-D series of integers
\* (numpy.interp), times InterpScale.  xs is non-decreasing; at a frame that
\* occurs several times the last sample stands.
InterpAt(xs, ys, f) ==
    LET n == Len(xs)
    IN  IF f = xs[n] THEN ys[n] * InterpScale
        ELSE LET j == CHOOSE k \in 1..(n - 1) : xs[k] <= f /\ f < xs[k + 1]
             IN  ys[j] * InterpScale
                 + (ys[j + 1] - ys[j]) * (f - xs[j]) * (InterpScale \div (xs[j + 1] - xs[j]))

\* len(track) > self.args.min_track
LongEnough(track) == Len(track) > min_track

\* frameI = numpy.arange(frameNum[0], frameNum[-1] + 1)
FrameRange(track) ==
    [i \in 1..(Last(track).frame - track[1].frame + 1) |-> track[1].frame + i - 1]

\* The interpolated track: frame, bbox and confidence over frameI.
Interpolate(track) ==
    LET frameNum == [i \in 1..Len(track) |-> track[i].frame]
        frameI   == FrameRange(track)
        col(ij)  == [i \in 1..Len(track) |-> track[i].bbox[ij]]
        confs    == [i \in 1..Len(track) |-> track[i].conf]
    IN  [frame      |-> frameI,
         bbox       |-> [i \in 1..Len(frameI) |->
                            <<InterpAt(frameNum, col(1), frameI[i]),
                              InterpAt(frameNum, col(2), frameI[i]),
                              InterpAt(frameNum, col(3), frameI[i]),
                              InterpAt(frameNum, col(4), frameI[i])>>],
         confidence |-> [i \in 1..Len(frameI) |-> InterpAt(frameNum, confs, frameI[i])]]

\* max(mean(x1 - x0), mean(y1 - y0)) > self.args.min_face_size
BigEnough(t) ==
    LET n  == Len(t.frame)
        sw == SumSeq([i \in 1..n |-> t.bbox[i][3] - t.bbox[i][1]])
        sh == SumSeq([i \in 1..n |-> t.bbox[i][4] - t.bbox[i][2]])
    IN  Max(sw, sh) > min_face_size * InterpScale * n

\* sceneFaces = face_detections[shot[0] : shot[1] + 1]: the 0-based bounds.
SliceLo(shot) == PyBound(shot[1], Len(detections))
SliceHi(shot) == PyBound(shot[2] + 1, Len(detections))

\* The detections in sceneFaces, the slice of the list for shot.
PoolSize(lists, shot) ==
    SumSeq([i \in 1..Len(PySlice(lists, shot[1], shot[2] + 1)) |->
               Len(PySlice(lists, shot[1], shot[2] + 1)[i])])

\* One pass of "while True": scan, then stop, emit or drop.
TrackShotPass ==
    /\ pc = "track_shot"
    /\ LET shot == scenes[shotIdx + 1]
           r    == ScanFrames(detections, SliceLo(shot) + 1, SliceHi(shot), <<>>)
       IN  IF r.track = <<>>
           THEN /\ pc' = "track_faces"
                /\ shotIdx' = shotIdx + 1
                /\ calls' = [calls EXCEPT ![Len(calls)].passes = @ + 1,
                                          ![Len(calls)].returned = TRUE]
                /\ UNCHANGED <<detections, all_tracks, trackShot, cands>>
           ELSE /\ detections' = r.pool
                /\ calls' = [calls EXCEPT ![Len(calls)].passes = @ + 1]
                /\ cands' = Append(cands, r.track)
                /\ IF LongEnough(r.track) /\ BigEnough(Interpolate(r.track))
                   THEN /\ all_tracks' = Append(all_tracks, Interpolate(r.track))
                        /\ trackShot' = Append(trackShot, shotIdx)
                   ELSE UNCHANGED <<all_tracks, trackShot>>
                /\ UNCHANGED <<pc, shotIdx>>
    /\ UNCHANGED <<detOut, scenes, min_track, num_failed_det, invoked>>
    /\ UNCHANGED <<scoreVars, runVars, cropVars, dirVars>>

\* ------------------------------------------------------------- track_faces
\* A track_faces that lacks the check of the shot's length.
ShotKeptAlways(shot) == TRUE

\* shot[1].frame_num - shot[0].frame_num >= self.args.min_track
ShotKept(shot) == shot[2] - shot[1] >= min_track

\* One iteration of "for shot in scenes".
TrackFacesShot ==
    /\ pc = "track_faces"
    /\ shotIdx < Len(scenes)
    /\ IF ShotKept(scenes[shotIdx + 1])
       THEN /\ pc' = "track_shot"
            /\ invoked' = invoked \cup {shotIdx}
            /\ calls' = Append(calls, [shot     |-> shotIdx,
                                       size     |-> PoolSize(detections, scenes[shotIdx + 1]),
                                       passes   |-> 0,
                                       returned |-> FALSE])
            /\ UNCHANGED shotIdx
       ELSE /\ shotIdx' = shotIdx + 1
            /\ UNCHANGED <<pc, invoked, calls>>
    /\ UNCHANGED <<detOut, scenes, min_track, num_failed_det, detections,
                   all_tracks, trackShot, cands>>
    /\ UNCHANGED <<scoreVars, runVars, cropVars, dirVars>>

TrackFacesReturn ==
    /\ pc = "track_faces"
    /\ shotIdx = Len(scenes)
    /\ pc' = "done"
    /\ UNCHANGED <<detOut, scenes, min_track, num_failed_det, detections, shotIdx,
                   all_tracks, trackShot, cands, invoked, calls>>
    /\ UNCHANGED <<scoreVars, runVars, cropVars, dirVars>>

\* detect_faces: the whole loop over the frames.
DetectFaces ==
    /\ pc = "detect_faces"
    /\ detections' = DetectLoop(detOut, 0, <<>>)
    /\ pc' = "track_faces"
    /\ UNCHANGED <<detOut, scenes, min_track, num_failed_det, shotIdx,
                   all_tracks, trackShot, cands, invoked, calls>>
    /\ UNCHANGED <<scoreVars, runVars, cropVars, dirVars>>

TrackIdle ==
    /\ pc = "idle"
    /\ detOut = <<>>
    /\ scenes = <<>>
    /\ min_track = 0
    /\ num_failed_det = 0
    /\ detections = <<>>
    /\ shotIdx = 0
    /\ all_tracks = <<>>
    /\ trackShot = <<>>
    /\ cands = <<>>
    /\ invoked = {}
    /\ calls = <<>>

ScoreIdle ==
    /\ spc = "idle"
    /\ audioIn = 0
    /\ cropLen = 0
    /\ audioLen = 0
    /\ videoLen = 0
    /\ length = <<0, 1>>
    /\ all_score = <<>>
    /\ srcFrames = <<>>
    /\ final = <<>>
    /\ shown = <<>>

RunIdle ==
    /\ rpc = "idle"
    /\ nTracks = 0
    /\ cropped = 0
    /\ executed = <<>>
    /\ exits = <<>>
    /\ dirExists = FALSE
    /\ raised = "none"
    /\ propagated = "none"

CropIdle ==
    /\ cpc = "idle"
    /\ cropTrack = <<>>
    /\ dets = [s |-> <<>>, x |-> <<>>, y |-> <<>>]
    /\ cropIdx = 0
    /\ crops = <<>>

DirIdle ==
    /\ clock = 0
    /\ cache_dir = <<>>
    /\ inst = <<>>

\* The face stage: detect_faces on every frame, then track_faces.
TrackInit ==
    /\ pc = "detect_faces"
    /\ detOut \in [1..NumFrames -> FrameResults]
    /\ scenes \in SceneLists
    /\ min_track \in 1..MaxMinTrack
    /\ num_failed_det \in FailedDetValues
    /\ detections = <<>>
    /\ shotIdx = 0
    /\ all_tracks = <<>>
    /\ trackShot = <<>>
    /\ cands = <<>>
    /\ invoked = {}
    /\ calls = <<>>
    /\ ScoreIdle
    /\ RunIdle
    /\ CropIdle
    /\ DirIdle

TrackNext ==
    \/ DetectFaces
    \/ TrackFacesShot
    \/ TrackShotPass
    \/ TrackFacesReturn

SpecTrack == TrackInit /\ [][TrackNext]_vars

\* -------------------------------------------------------- evaluate_network
\* duration_set = {1, 1, 1, 2, 2, 2, 3, 3, 4, 5, 6}: a set display.
duration_set == {1, 1, 1, 2, 2, 2, 3, 3, 4, 5, 6}

\* The order "for duration in duration_set" visits the set in: ascending,
\* as a set of small integers iterates.
RECURSIVE SortedSeq(_)
SortedSeq(S) ==
    IF S = {} THEN <<>>
    ELSE LET m == CHOOSE x \in S : \A y \in S : x <= y
         IN  <<m>> \o SortedSeq(S \ {m})

DurationOrder == SortedSeq(duration_set)

\* ceil(num / den), for den > 0.
CeilDiv(num, den) == -((-num) \div den)

\* The integers round(num / den) may be: the nearest one; half-way between
\* two, the floating-point product the code rounds is a little above or a
\* little below the half, so either neighbour.
RoundChoices(num, den) ==
    LET q == num \div den
        r == num % den
    IN  IF 2 * r < den THEN {q}
        ELSE IF 2 * r > den THEN {q + 1}
        ELSE {q, q + 1}

\* round-half-even of num / den, for a value held exactly.
RoundHalfEven(num, den) ==
    LET q == num \div den
        r == num % den
    IN  IF 2 * r < den THEN q
        ELSE IF 2 * r > den THEN q + 1
        ELSE IF q % 2 = 0 THEN q ELSE q + 1

\* min(audio_feature.shape[0] / 100, video_feature.shape[0] / 25)
AlignedLength(nAudio, nVideo) ==
    IF nAudio * videoRate < nVideo * audioRate
    THEN <<nAudio, audioRate>>
    ELSE <<nVideo, videoRate>>

\* The scoring model, one window: one score per video frame of the window.
\* The stand-in's score is the frame's index in the crop plus the number of
\* video frames of the window.
ModelScores(windowV, nWindowA) ==
    [k \in 1..Len(windowV) |-> windowV[k] + Len(windowV)]

\* int(math.ceil(length / duration)) with floor in place of ceil.
BatchSizeFloor(len, duration) == len[1] \div (len[2] * duration)

\* batch_size = int(math.ceil(length / duration))
BatchSize(len, duration) == CeilDiv(len[1], len[2] * duration)

\* video_feature[i * duration * 25 : (i + 1) * duration * 25], the features
\* being the crop's frame indices 0, 1, ...
VideoWindow(nVideo, i, duration) ==
    PySlice([g \in 1..nVideo |-> g - 1],
            i * duration * videoRate, (i + 1) * duration * videoRate)

\* Rows of audio_feature[i * duration * 100 : (i + 1) * duration * 100]
AudioWindow(nAudio, i, duration) ==
    Cardinality(PySliceIdx(nAudio, i * duration * audioRate, (i + 1) * duration * audioRate))

\* "for i in range(batch_size)" from i on: the video windows, concatenated.
RECURSIVE PassFrames(_, _, _, _)
PassFrames(nVideo, i, batch_size, duration) ==
    IF i >= batch_size THEN <<>>
    ELSE VideoWindow(nVideo, i, duration)
         \o PassFrames(nVideo, i + 1, batch_size, duration)

\* "for i in range(batch_size)" from i on: scores.extend(score).
RECURSIVE PassScores(_, _, _, _, _)
PassScores(nAudio, nVideo, i, batch_size, duration) ==
    IF i >= batch_size THEN <<>>
    ELSE ModelScores(VideoWindow(nVideo, i, duration), AudioWindow(nAudio, i, duration))
         \o PassScores(nAudio, nVideo, i + 1, batch_size, duration)

\* numpy.round(numpy.mean(numpy.array(series), axis=0), 1), in tenths.
MeanRounded(series) ==
    IF series = <<>> THEN <<>>
    ELSE [i \in 1..Len(series[1]) |->
            RoundHalfEven(10 * SumSeq([k \in 1..Len(series) |-> series[k][i]]),
                          Len(series))]

\* Lines 511-516: the common length, and both feature arrays cut to it.
Align ==
    /\ spc = "load"
    /\ length' = AlignedLength(audioLen, videoLen)
    /\ \E na \in RoundChoices(length'[1] * audioRate, length'[2]),
          nv \in RoundChoices(length'[1] * videoRate, length'[2]) :
          /\ audioLen' = PyBound(na, audioLen)
          /\ videoLen' = PyBound(nv, videoLen)
    /\ spc' = "eval"
    /\ UNCHANGED <<audioIn, cropLen, all_score, srcFrames, final, shown>>
    /\ UNCHANGED <<trackVars, runVars, cropVars, dirVars>>

\* One iteration of "for duration in duration_set".
EvalDuration ==
    /\ spc = "eval"
    /\ Len(all_score) < Len(DurationOrder)
    /\ LET duration   == DurationOrder[Len(all_score) + 1]
           batch_size == BatchSize(length, duration)
       IN  /\ all_score' = Append(all_score,
                                  PassScores(audioLen, videoLen, 0, batch_size, duration))
           /\ srcFrames' = Append(srcFrames, PassFrames(videoLen, 0, batch_size, duration))
    /\ UNCHANGED <<spc, audioIn, cropLen, audioLen, videoLen, length, final, shown>>
    /\ UNCHANGED <<trackVars, runVars, cropVars, dirVars>>

\* Lines 552-555: the mean over the passes, rounded.
MeanScores ==
    /\ spc = "eval"
    /\ Len(all_score) = Len(DurationOrder)
    /\ final' = MeanRounded(all_score)
    /\ spc' = "scored"
    /\ UNCHANGED <<audioIn, cropLen, audioLen, videoLen, length, all_score, srcFrames, shown>>
    /\ UNCHANGED <<trackVars, runVars, cropVars, dirVars>>

\* ------------------------------------------------------------ visualization
\* A smoothing window that ends at len(score), not len(score) - 1.
WindowStopAtLen(fidx, n) == Min(fidx + smoothAhead, n)

\* max(fidx - 2, 0)
WindowStart(fidx) == Max(fidx - smoothBack, 0)

\* min(fidx + 3, len(score) - 1)
WindowStop(fidx, n) == Min(fidx + smoothAhead, n - 1)

\* s = score[max(fidx - 2, 0) : min(fidx + 3, len(score) - 1)] and its mean,
\* kept as the indices taken, their sum and their number.
Smooth(score, fidx) ==
    LET idx == PySliceIdx(Len(score), WindowStart(fidx), WindowStop(fidx, Len(score)))
        s   == PySlice(score, WindowStart(fidx), WindowStop(fidx, Len(score)))
    IN  [idx |-> idx, sum |-> SumSeq(s), n |-> Len(s)]

\* The loop over the track's frames (lines 51-64).
Visualize ==
    /\ spc = "scored"
    /\ shown' = [i \in 1..cropLen |-> Smooth(final, i - 1)]
    /\ spc' = "shown"
    /\ UNCHANGED <<audioIn, cropLen, audioLen, videoLen, length, all_score, srcFrames, final>>
    /\ UNCHANGED <<trackVars, runVars, cropVars, dirVars>>

\* One track's crop and audio slice, scored and drawn.
ScoreInit ==
    /\ spc = "load"
    /\ audioIn \in 0..MaxAudioFeat
    /\ cropLen \in 0..MaxVideoFrames
    /\ audioLen = audioIn
    /\ videoLen = cropLen
    /\ length = <<0, 1>>
    /\ all_score = <<>>
    /\ srcFrames = <<>>
    /\ final = <<>>
    /\ shown = <<>>
    /\ TrackIdle
    /\ RunIdle
    /\ CropIdle
    /\ DirIdle

ScoreNext ==
    \/ Align
    \/ EvalDuration
    \/ MeanScores
    \/ Visualize

SpecScore == ScoreInit /\ [][ScoreNext]_vars

\* ------------------------------------------------------------ Pipeline.run
\* The exit statuses of the media tool: success, or a failure.
ExitStatuses == {0, 1}

\* The statements of run()'s try block, in order.
Stages ==
    <<"extract_video", "extract_audio", "extract_frames", "scenes_detect",
      "detect_faces", "track_faces", "video_tracks", "save_tracks",
      "evaluate_network", "save_scores", "visualization">>

\* The statement after stage, or the return of run().
StageAfter(stage) ==
    LET k == CHOOSE i \in 1..Len(Stages) : Stages[i] = stage
    IN  IF k = Len(Stages) THEN "returned" ELSE Stages[k + 1]

\* An except block that re-raises and leaves the working directory.
OnExceptionKeepDir(stage) ==
    /\ rpc' = "failed"
    /\ raised' = stage
    /\ UNCHANGED dirExists
    /\ propagated' = stage

\* _cleanup_cache: shutil.rmtree(self.save_path) if it exists.
CleanupCache == dirExists' = FALSE

\* except Exception: print, self._cleanup_cache(), raise.  The exception
\* is named by the stage that raised it.
OnException(stage) ==
    /\ rpc' = "failed"
    /\ raised' = stage
    /\ CleanupCache
    /\ propagated' = stage

\* subprocess.call(command, shell=True): the status is returned and dropped.
MediaTool(stage, status) == exits' = Append(exits, <<stage, status>>)

\* A stage that calls no media tool: it returns or raises.
PlainStage(stage) ==
    /\ rpc = stage
    /\ executed' = Append(executed, stage)
    /\ \/ /\ rpc' = StageAfter(stage)
          /\ UNCHANGED <<dirExists, raised, propagated>>
       \/ OnException(stage)
    /\ UNCHANGED <<cropped, exits>>
    /\ UNCHANGED <<trackVars, scoreVars, cropVars, dirVars>>

\* A stage that calls the media tool once: the call may raise; if it
\* returns, with any status, the stage goes on to its end.
ToolStage(stage) ==
    /\ rpc = stage
    /\ executed' = Append(executed, stage)
    /\ \/ /\ \E status \in ExitStatuses : MediaTool(stage, status)
          /\ rpc' = StageAfter(stage)
          /\ UNCHANGED <<dirExists, raised, propagated>>
       \/ /\ OnException(stage)
          /\ UNCHANGED exits
    /\ UNCHANGED cropped
    /\ UNCHANGED <<trackVars, scoreVars, cropVars, dirVars>>

ExtractVideo == ToolStage("extract_video") /\ UNCHANGED nTracks

ExtractAudio == ToolStage("extract_audio") /\ UNCHANGED nTracks

ExtractFrames == ToolStage("extract_frames") /\ UNCHANGED nTracks

ScenesDetect == PlainStage("scenes_detect") /\ UNCHANGED nTracks

DetectFacesStage == PlainStage("detect_faces") /\ UNCHANGED nTracks

\* track_faces returns some number of tracks.
TrackFacesStage ==
    /\ PlainStage("track_faces")
    /\ nTracks' \in 0..MaxTracks

\* video_tracks: the loop over all_tracks starts.
VideoTracks ==
    /\ rpc = "video_tracks"
    /\ executed' = Append(executed, "video_tracks")
    /\ rpc' = "crop_video"
    /\ cropped' = 0
    /\ UNCHANGED <<nTracks, exits, dirExists, raised, propagated>>
    /\ UNCHANGED <<trackVars, scoreVars, cropVars, dirVars>>

\* crop_video on the next track: the audio trim, wavfile.read, the remux.
\* Either media tool call may return any status; a statement may raise
\* before the trim, between the two calls or after them.
CropVideo ==
    /\ rpc = "crop_video"
    /\ cropped < nTracks
    /\ \/ /\ \E trim \in ExitStatuses, remux \in ExitStatuses :
                exits' = exits \o <<<<"video_tracks", trim>>, <<"video_tracks", remux>>>>
          /\ cropped' = cropped + 1
          /\ UNCHANGED <<rpc, dirExists, raised, propagated>>
       \/ /\ \E trim \in ExitStatuses : MediaTool("video_tracks", trim)
          /\ OnException("video_tracks")
          /\ UNCHANGED cropped
       \/ /\ OnException("video_tracks")
          /\ UNCHANGED <<exits, cropped>>
    /\ UNCHANGED <<nTracks, executed>>
    /\ UNCHANGED <<trackVars, scoreVars, cropVars, dirVars>>

\* video_tracks returns the cropped tracks.
VideoTracksReturn ==
    /\ rpc = "crop_video"
    /\ cropped = nTracks
    /\ rpc' = StageAfter("video_tracks")
    /\ UNCHANGED <<nTracks, cropped, executed, exits, dirExists, raised, propagated>>
    /\ UNCHANGED <<trackVars, scoreVars, cropVars, dirVars>>

SaveTracks == PlainStage("save_tracks") /\ UNCHANGED nTracks

EvaluateNetwork == PlainStage("evaluate_network") /\ UNCHANGED nTracks

SaveScores == PlainStage("save_scores") /\ UNCHANGED nTracks

\* visualization: drawing may raise; its last statement is the final remux.
Visualization == ToolStage("visualization") /\ UNCHANGED nTracks

\* A constructed Pipeline: _setup_paths has made the working directory.
RunInit ==
    /\ rpc = "extract_video"
    /\ nTracks = 0
    /\ cropped = 0
    /\ executed = <<>>
    /\ exits = <<>>
    /\ dirExists = TRUE
    /\ raised = "none"
    /\ propagated = "none"
    /\ TrackIdle
    /\ ScoreIdle
    /\ CropIdle
    /\ DirIdle

RunNext ==
    \/ ExtractVideo
    \/ ExtractAudio
    \/ ExtractFrames
    \/ ScenesDetect
    \/ DetectFacesStage
    \/ TrackFacesStage
    \/ VideoTracks
    \/ CropVideo
    \/ VideoTracksReturn
    \/ SaveTracks
    \/ EvaluateNetwork
    \/ SaveScores
    \/ Visualization

SpecRun == RunInit /\ [][RunNext]_vars

\* -------------------------------------------------------------- crop_video
\* crop_scale = 0.40, as <<numerator, denominator>>.
crop_scale == <<2, 5>>

\* The boxes of the track's frames: inside the frame, of even and odd
\* extents, one of them in the bottom right corner.
CropBoxes ==
    { <<0, 0, 4, 4>>,
      <<2, 1, 9, 6>>,
      <<FrameWidth - 3, FrameHeight - 5, FrameWidth, FrameHeight>> }

\* int(num / den): truncation towards zero.
Trunc(num, den) == IF num >= 0 THEN num \div den ELSE -((-num) \div den)

\* The k-th smallest element of a sequence.
KthSmallest(w, k) ==
    CHOOSE v \in {w[j] : j \in 1..Len(w)} :
        /\ Cardinality({j \in 1..Len(w) : w[j] < v}) < k
        /\ Cardinality({j \in 1..Len(w) : w[j] <= v}) >= k

\* signal.medfilt(vals, kernel_size=13): the median of the window around
\* each element, the series padded with zeros at both ends.
MedFilt(vals) ==
    LET half == (kernel_size - 1) \div 2
        at(j) == IF 1 <= j /\ j <= Len(vals) THEN vals[j] ELSE 0
    IN  [i \in 1..Len(vals) |->
            KthSmallest([j \in 1..kernel_size |-> at(i - half - 1 + j)], half + 1)]

\* Lines 416-419, doubled: 2 * dets["s"], 2 * dets["x"], 2 * dets["y"].
RawDets(bboxes) ==
    [s |-> [i \in 1..Len(bboxes) |->
               Max(bboxes[i][4] - bboxes[i][2], bboxes[i][3] - bboxes[i][1])],
     x |-> [i \in 1..Len(bboxes) |-> bboxes[i][1] + bboxes[i][3]],
     y |-> [i \in 1..Len(bboxes) |-> bboxes[i][2] + bboxes[i][4]]]

\* bsi = int(bs * (1 + 2 * cs)), bs being s2 / 2.
PadAmount(s2) == Trunc(s2 * (crop_scale[2] + 2 * crop_scale[1]), 2 * crop_scale[2])

\* int(my - bs), my being y2 / 2 + bsi.
RowStart(y2, s2, bsi) == Trunc(y2 + 2 * bsi - s2, 2)

\* A row bound int(my + bs): the window as far below the centre as above.
RowStopSymmetric(y2, s2, bsi) == Trunc(y2 + 2 * bsi + s2, 2)

\* int(my + bs * (1 + 2 * cs))
RowStop(y2, s2, bsi) ==
    Trunc(crop_scale[2] * (y2 + 2 * bsi) + s2 * (crop_scale[2] + 2 * crop_scale[1]),
          2 * crop_scale[2])

\* int(mx - bs * (1 + cs)), mx being x2 / 2 + bsi.
ColStart(x2, s2, bsi) ==
    Trunc(crop_scale[2] * (x2 + 2 * bsi) - s2 * (crop_scale[2] + crop_scale[1]),
          2 * crop_scale[2])

\* int(mx + bs * (1 + cs))
ColStop(x2, s2, bsi) ==
    Trunc(crop_scale[2] * (x2 + 2 * bsi) + s2 * (crop_scale[2] + crop_scale[1]),
          2 * crop_scale[2])

\* face = frame[r0:r1, c0:c1] of the frame padded by bsi on every side: the
\* rows and columns the slices take, as [first, past-the-last) after
\* Python's clamping.
CropRegion(s2, x2, y2) ==
    LET bsi  == PadAmount(s2)
        rows == FrameHeight + 2 * bsi
        cols == FrameWidth + 2 * bsi
        top    == PyBound(RowStart(y2, s2, bsi), rows)
        bottom == PyBound(RowStop(y2, s2, bsi), rows)
        left   == PyBound(ColStart(x2, s2, bsi), cols)
        right  == PyBound(ColStop(x2, s2, bsi), cols)
    IN  [bsi |-> bsi, s |-> s2, x |-> x2, y |-> y2,
         top |-> top, bottom |-> Max(bottom, top),
         left |-> left, right |-> Max(right, left)]

\* Lines 415-422: the boxes' half-sizes and centres, median-filtered.
CropSmooth ==
    /\ cpc = "dets"
    /\ dets' = [s |-> MedFilt(RawDets(cropTrack).s),
                x |-> MedFilt(RawDets(cropTrack).x),
                y |-> MedFilt(RawDets(cropTrack).y)]
    /\ cropIdx' = 0
    /\ cpc' = "frames"
    /\ UNCHANGED <<cropTrack, crops>>
    /\ UNCHANGED <<trackVars, scoreVars, runVars, dirVars>>

\* Lines 423-440, one frame: pad, cut, resize.  cv2.resize raises on an
\* empty region, which ends crop_video.
CropFrame ==
    /\ cpc = "frames"
    /\ cropIdx < Len(cropTrack)
    /\ LET r == CropRegion(dets.s[cropIdx + 1], dets.x[cropIdx + 1], dets.y[cropIdx + 1])
       IN  /\ crops' = Append(crops, r)
           /\ IF r.bottom = r.top \/ r.right = r.left
              THEN cpc' = "failed" /\ UNCHANGED cropIdx
              ELSE cropIdx' = cropIdx + 1 /\ UNCHANGED cpc
    /\ UNCHANGED <<cropTrack, dets>>
    /\ UNCHANGED <<trackVars, scoreVars, runVars, dirVars>>

\* Lines 441-463: the loop is over; the audio is cut and the crop returned.
CropReturn ==
    /\ cpc = "frames"
    /\ cropIdx = Len(cropTrack)
    /\ cpc' = "done"
    /\ UNCHANGED <<cropTrack, dets, cropIdx, crops>>
    /\ UNCHANGED <<trackVars, scoreVars, runVars, dirVars>>

\* crop_video is given a track of boxes.
CropInit ==
    /\ cpc = "dets"
    /\ cropTrack \in UNION {[1..n -> CropBoxes] : n \in 1..MaxCropFrames}
    /\ dets = [s |-> <<>>, x |-> <<>>, y |-> <<>>]
    /\ cropIdx = 0
    /\ crops = <<>>
    /\ TrackIdle
    /\ ScoreIdle
    /\ RunIdle
    /\ DirIdle

CropNext ==
    \/ CropSmooth
    \/ CropFrame
    \/ CropReturn

SpecCrop == CropInit /\ [][CropNext]_vars

\* ------------------------------------------- Pipeline instances, cache_dir
\* The Pipeline instances alive at once, in one process or several.
Instances == {1, 2}

\* The videos the instances are constructed for.
VideoPaths ==
    { [dir |-> "/x", stem |-> "a", ext |-> ".mp4"],
      [dir |-> "/y", stem |-> "a", ext |-> ".avi"],
      [dir |-> "/x", stem |-> "b", ext |-> ".mp4"] }

\* os.path.splitext(os.path.basename(file_path))[0]
GetFilename(file_path) == file_path.stem

\* cache_dir / f"{video_name}-{now_iso}", now_iso to the second.
SavePath(video_name, now_iso) == <<video_name, now_iso>>

\* shutil.rmtree(path) if path.exists(), on the file system dirs.
RmTree(dirs, path) == [d \in (DOMAIN dirs) \ {path} |-> dirs[d]]

\* mkdir(parents=True, exist_ok=True) of the path's subdirectories: what is
\* there already stays.
MkDirs(dirs, path) ==
    [d \in (DOMAIN dirs) \cup {path} |-> IF d \in DOMAIN dirs THEN dirs[d] ELSE {}]

\* A stage of instance i writes its artifact k: a file of that name is replaced.
WriteFile(dirs, path, k, i) ==
    [dirs EXCEPT ![path] = {f \in @ : f[1] # k} \cup {<<k, i>>}]

\* Lines 590-594: the instance names its working directory.
Construct(i) ==
    /\ inst[i].state = "new"
    /\ \E video_path \in VideoPaths :
          inst' = [inst EXCEPT ![i].state = "setup",
                               ![i].save_path = SavePath(GetFilename(video_path), clock)]
    /\ UNCHANGED <<clock, cache_dir>>
    /\ UNCHANGED <<trackVars, scoreVars, runVars, cropVars>>

\* _setup_paths, line 629: self._cleanup_cache().
SetupCleanup(i) ==
    /\ inst[i].state = "setup"
    /\ cache_dir' = RmTree(cache_dir, inst[i].save_path)
    /\ inst' = [inst EXCEPT ![i].state = "mkdir"]
    /\ UNCHANGED clock
    /\ UNCHANGED <<trackVars, scoreVars, runVars, cropVars>>

\* _setup_paths, lines 631-634: the four mkdir calls.
SetupMkdir(i) ==
    /\ inst[i].state = "mkdir"
    /\ cache_dir' = MkDirs(cache_dir, inst[i].save_path)
    /\ inst' = [inst EXCEPT ![i].state = "init"]
    /\ UNCHANGED clock
    /\ UNCHANGED <<trackVars, scoreVars, runVars, cropVars>>

\* __init__, lines 614-621: the components are built, or building raises
\* and the working directory is removed.
InitComponents(i) ==
    /\ inst[i].state = "init"
    /\ \/ /\ inst' = [inst EXCEPT ![i].state = "ready"]
          /\ UNCHANGED cache_dir
       \/ /\ inst' = [inst EXCEPT ![i].state = "failed"]
          /\ cache_dir' = RmTree(cache_dir, inst[i].save_path)
    /\ UNCHANGED clock
    /\ UNCHANGED <<trackVars, scoreVars, runVars, cropVars>>

\* run(): the next stage writes its artifact; it raises if the directory is
\* not there, or for a reason of its own, and run() removes the directory.
RunStage(i) ==
    /\ inst[i].state = "ready"
    /\ inst[i].written < MaxStages
    /\ \/ /\ inst[i].save_path \in DOMAIN cache_dir
          /\ cache_dir' = WriteFile(cache_dir, inst[i].save_path, inst[i].written + 1, i)
          /\ inst' = [inst EXCEPT ![i].written = @ + 1]
       \/ /\ cache_dir' = RmTree(cache_dir, inst[i].save_path)
          /\ inst' = [inst EXCEPT ![i].state = "failed"]
    /\ UNCHANGED clock
    /\ UNCHANGED <<trackVars, scoreVars, runVars, cropVars>>

\* run() returns: the working directory is kept.
RunReturn(i) ==
    /\ inst[i].state = "ready"
    /\ inst[i].written = MaxStages
    /\ inst' = [inst EXCEPT ![i].state = "returned"]
    /\ UNCHANGED <<clock, cache_dir>>
    /\ UNCHANGED <<trackVars, scoreVars, runVars, cropVars>>

\* A second passes.
Tick ==
    /\ clock < MaxSecond
    /\ clock' = clock + 1
    /\ UNCHANGED <<cache_dir, inst>>
    /\ UNCHANGED <<trackVars, scoreVars, runVars, cropVars>>

\* The cache directory is empty and no instance is constructed yet.
DirInit ==
    /\ clock = 0
    /\ cache_dir = <<>>
    /\ inst = [i \in Instances |-> [state |-> "new", save_path |-> <<>>, written |-> 0]]
    /\ TrackIdle
    /\ ScoreIdle
    /\ RunIdle
    /\ CropIdle

DirNext ==
    \/ \E i \in Instances : Construct(i)
    \/ \E i \in Instances : SetupCleanup(i)
    \/ \E i \in Instances : SetupMkdir(i)
    \/ \E i \in Instances : InitComponents(i)
    \/ \E i \in Instances : RunStage(i)
    \/ \E i \in Instances : RunReturn(i)
    \/ Tick

SpecDirs == DirInit /\ [][DirNext]_vars

\* ------------------------------------------------------ the tracking claims
\* The list detect_faces handed to track_faces, before any removal.
InitialPool == DetectLoop(detOut, 0, <<>>)

\* The detections that occur in a list of lists.
DetsOf(lists) == UNION {{lists[i][k] : k \in 1..Len(lists[i])} : i \in 1..Len(lists)}

\* How often d occurs in a list of lists.
CountIn(lists, d) ==
    SumSeq([i \in 1..Len(lists) |-> Cardinality({k \in 1..Len(lists[i]) : lists[i][k] = d})])

\* Frames of a shot, both ends included.
ShotLength(shot) == shot[2] - shot[1] + 1

\* Every frame of track t lies in shot number k (1-based).
TrackInShot(t, k) ==
    \A j \in 1..Len(t.frame) : scenes[k][1] <= t.frame[j] /\ t.frame[j] <= scenes[k][2]

\* C2: whatever frames fail, detect_faces returns one entry per extracted
\* frame, the entry at position i holds only detections of frame i, and a
\* frame whose extraction threw has an empty entry.
C2_OneEntryPerFrame ==
    pc # "detect_faces" =>
        /\ Len(detections) = Len(detOut)
        /\ \A i \in 1..Len(detections) :
              /\ \A k \in 1..Len(detections[i]) : detections[i][k].frame = i - 1
              /\ i <= Len(detOut) /\ detOut[i].throws => detections[i] = <<>>

\* C5: every emitted track has more than min_track frames.
C5_TrackLongerThanMinTrack ==
    \A i \in 1..Len(all_tracks) : Len(all_tracks[i].frame) > min_track

\* C6: every track has all of its frames inside exactly one shot.
C6_TrackWithinOneShot ==
    \A i \in 1..Len(all_tracks) :
        Cardinality({k \in 1..Len(scenes) : TrackInShot(all_tracks[i], k)}) = 1

\* C6, where no extraction threw (the detections are aligned with the
\* frames): every track lies in the shot whose call emitted it, and in no other.
TrackWithinOneShotIfAligned ==
    (\A f \in 1..Len(detOut) : ~detOut[f].throws) =>
        \A i \in 1..Len(all_tracks) :
            {k \in 1..Len(scenes) : TrackInShot(all_tracks[i], k)} = {trackShot[i] + 1}

\* C7: a detection adopted into a candidate track has left the pool: every
\* detection is, as often as detect_faces returned it, either in the pool or
\* in exactly one candidate track, after any number of passes.
C7_TracksDisjoint ==
    pc # "detect_faces" =>
        \A d \in DetsOf(InitialPool) \cup DetsOf(cands) :
            CountIn(cands, d) + CountIn(detections, d) = CountIn(InitialPool, d)

\* Two tracks were emitted and a third candidate dropped, all in one shot.
C7_Witness ==
    /\ Len(all_tracks) >= 2
    /\ Len(cands) > Len(all_tracks)
    /\ trackShot[1] = trackShot[2]
    /\ Cardinality(invoked) = 1

KeptOf(f) == FrameDetections(f, detOut[f + 1].faces)

\* Shot k (1-based) as C11 takes it: N frames with N - 1 >= min_track, one
\* detection in every frame, every two consecutive ones with IOU > 0.5, and
\* the mean extent of the boxes above min_face_size.
CleanShot(k) ==
    LET lo == scenes[k][1]
        hi == scenes[k][2]
    IN  /\ ShotLength(scenes[k]) - 1 >= min_track
        /\ \A f \in lo..hi : ~detOut[f + 1].throws /\ Len(KeptOf(f)) = 1
        /\ \A f \in lo..(hi - 1) :
              IouAboveThres(bb_intersection_over_union(KeptOf(f + 1)[1].bbox,
                                                       KeptOf(f)[1].bbox))
        /\ Max(SumSeq([i \in 1..(hi - lo + 1) |->
                          KeptOf(lo + i - 1)[1].bbox[3] - KeptOf(lo + i - 1)[1].bbox[1]]),
               SumSeq([i \in 1..(hi - lo + 1) |->
                          KeptOf(lo + i - 1)[1].bbox[4] - KeptOf(lo + i - 1)[1].bbox[2]]))
              > min_face_size * (hi - lo + 1)

\* The track that is shot k's detections, frame by frame.
TrackOfShot(k) ==
    LET lo == scenes[k][1]
        n  == ShotLength(scenes[k])
    IN  [frame      |-> [i \in 1..n |-> lo + i - 1],
         bbox       |-> [i \in 1..n |->
                            [c \in 1..4 |-> KeptOf(lo + i - 1)[1].bbox[c] * InterpScale]],
         confidence |-> [i \in 1..n |-> KeptOf(lo + i - 1)[1].conf * InterpScale]]

\* The tracks the call on shot k emitted, in order.
TracksFrom(k) ==
    LET idx == {i \in 1..Len(all_tracks) : trackShot[i] = k - 1}
    IN  [j \in 1..Cardinality(idx) |->
            all_tracks[CHOOSE i \in idx : Cardinality({h \in idx : h <= i}) = j]]

\* track_faces is past shot k.
ShotDone(k) == pc = "done" \/ (pc \in {"track_faces", "track_shot"} /\ shotIdx >= k)

\* C11: a shot of N frames with N - 1 >= min_track, one detection per frame,
\* consecutive IOU > 0.5 and mean extent above min_face_size gives exactly
\* one track: the shot's N frames in order, box and confidence at each frame
\* equal to that frame's detection.
C11_OneTrackPerCleanShot ==
    \A k \in 1..Len(scenes) :
        CleanShot(k) /\ ShotDone(k) => TracksFrom(k) = <<TrackOfShot(k)>>

\* C11, where no extraction threw (position i of the detections is frame i).
OneTrackPerCleanShotIfAligned ==
    (\A f \in 1..Len(detOut) : ~detOut[f].throws) =>
        \A k \in 1..Len(scenes) :
            CleanShot(k) /\ ShotDone(k) => TracksFrom(k) = <<TrackOfShot(k)>>

\* A clean shot of all the frames was tracked into its one track.
CleanShotTracked ==
    /\ pc = "done"
    /\ Len(scenes) = 1
    /\ CleanShot(1)
    /\ TracksFrom(1) = <<TrackOfShot(1)>>


\* All the detections of a list of per-frame lists.
TotalSize(lists) == SumSeq([i \in 1..Len(lists) |-> Len(lists[i])])

\* A measure of the work the tracking run has left: the shots not yet
\* passed, the position within the current one, and the detections left.
TrackRank ==
    IF pc = "done" THEN 0
    ELSE IF pc = "detect_faces" THEN 2 * Len(scenes) + 3 + TotalSize(InitialPool)
    ELSE 2 * (Len(scenes) - shotIdx) + (IF pc = "track_faces" THEN 1 ELSE 0)
         + 1 + TotalSize(detections)

\* C13: track_shot terminates.  A call makes at most one pass more than the
\* detections it was handed; a pass that does not end the loop takes at
\* least one detection out of the shot's pool; the loop ends exactly on the
\* pass whose scan adopts no seed, and then every frame's list in the pool
\* is empty; a run that is not over is at a statement that can be executed,
\* and every step brings TrackRank, a natural number, down.
C13_TrackShotTerminates ==
    /\ [](/\ \A c \in 1..Len(calls) : calls[c].passes <= calls[c].size + 1
          /\ TrackRank \in Nat
          /\ pc = "track_faces" => shotIdx <= Len(scenes)
          /\ pc = "track_shot" => shotIdx < Len(scenes) /\ ~Last(calls).returned
          /\ pc \in {"detect_faces", "track_faces", "track_shot", "done"})
    /\ [][/\ TrackRank' < TrackRank
          /\ pc = "track_shot" =>
                /\ pc' = "track_shot" =>
                      PoolSize(detections', scenes[shotIdx + 1])
                          < PoolSize(detections, scenes[shotIdx + 1])
                /\ pc' = "track_faces" <=> cands' = cands
                /\ pc' = "track_faces" =>
                      /\ PoolSize(detections, scenes[shotIdx + 1]) = 0
                      /\ detections' = detections]_vars

\* A call handed three detections or more returned after three passes or
\* more, its pool empty.
C13_Witness ==
    /\ pc = "done"
    /\ \E c \in 1..Len(calls) :
          /\ calls[c].returned
          /\ calls[c].size >= 3
          /\ calls[c].passes >= 3
          /\ PoolSize(detections, scenes[calls[c].shot + 1]) = 0

\* --------------------------------------------------------- the crop claim
Abs(n) == IF n < 0 THEN -n ELSE n

\* C12: the region cut out for a frame has height 2*s and width
\* 2*s*(1+cropScale) and is centred at (x+bsi, y+bsi) in padded
\* coordinates, each up to the truncation of the slice bounds (one pixel).
C12_CropWindow ==
    \A i \in 1..Len(crops) :
        LET r == crops[i]
        IN  /\ Abs((r.bottom - r.top) - r.s) <= 1
            /\ Abs(crop_scale[2] * (r.right - r.left)
                   - r.s * (crop_scale[2] + crop_scale[1])) <= crop_scale[2]
            /\ Abs((r.left + r.right) - (r.x + 2 * r.bsi)) <= 2
            /\ Abs((r.top + r.bottom) - (r.y + 2 * r.bsi)) <= 2

\* C12, amended: the region is a square of side 2*s*(1+cropScale); its
\* columns are centred at x+bsi; its rows run from s above y+bsi to
\* s*(1+2*cropScale) below it, so they are centred at y+bsi+s*cropScale;
\* each within the truncation of the slice bounds (less than one pixel).
C12_SquareCropWindow ==
    \A i \in 1..Len(crops) :
        LET r == crops[i]
            q == crop_scale[2]
            p == crop_scale[1]
        IN  /\ Abs(q * (r.bottom - r.top) - r.s * (q + p)) < q
            /\ Abs(q * (r.right - r.left) - r.s * (q + p)) < q
            /\ Abs((r.left + r.right) - (r.x + 2 * r.bsi)) < 2
            /\ Abs(q * (r.top + r.bottom) - (q * (r.y + 2 * r.bsi) + r.s * p)) < 2 * q
            /\ Abs(2 * r.top - (r.y + 2 * r.bsi - r.s)) < 2
            /\ Abs(2 * q * r.bottom - (q * (r.y + 2 * r.bsi) + r.s * (q + 2 * p))) < 2 * q

\* A track was cropped to its end; a frame of half-size 3.5 gave a region of
\* 9 rows and 10 columns.
C12_Witness ==
    /\ cpc = "done"
    /\ \E i \in 1..Len(crops) :
          /\ crops[i].s = 7
          /\ crops[i].bottom - crops[i].top = 9
          /\ crops[i].right - crops[i].left = 10

\* ---------------------------------------------------- the directory claim
\* Instance i has set its working directory up and has not failed.
SetUp(i) == inst[i].state \in {"init", "ready", "returned"}

\* C14: the working directory of an instance, once set up, is written and
\* deleted only by that instance: it exists and holds exactly the artifacts
\* the instance wrote, whatever the other instance does.
C14_WorkingDirIsolated ==
    \A i \in DOMAIN inst :
        SetUp(i) =>
            /\ inst[i].save_path \in DOMAIN cache_dir
            /\ cache_dir[inst[i].save_path] = {<<k, i>> : k \in 1..inst[i].written}

\* C14, for instances whose working directories have different paths.
WorkingDirIsolatedIfPathsDiffer ==
    \A i \in DOMAIN inst :
        SetUp(i) /\ (\A j \in (DOMAIN inst) \ {i} : inst[j].save_path # inst[i].save_path) =>
            /\ inst[i].save_path \in DOMAIN cache_dir
            /\ cache_dir[inst[i].save_path] = {<<k, i>> : k \in 1..inst[i].written}

\* Both instances ran to the end, each in its own directory.
BothReturned ==
    /\ \A i \in DOMAIN inst : inst[i].state = "returned"
    /\ DOMAIN inst = Instances
    /\ inst[1].save_path # inst[2].save_path
    /\ \A i \in Instances : cache_dir[inst[i].save_path] = {<<k, i>> : k \in 1..MaxStages}

\* ------------------------------------------------------- the scoring claims
RECURSIVE SumOver(_, _)
SumOver(S, f) ==
    IF S = {} THEN 0
    ELSE LET x == CHOOSE y \in S : TRUE
         IN  f[x] + SumOver(S \ {x}, f)

\* The crop frames 0 .. n-1, in order.
FramesUpTo(n) == [i \in 1..n |-> i - 1]

\* The series one pass with windows of d seconds gives on the aligned features.
SeriesFor(d) == PassScores(audioLen, videoLen, 0, BatchSize(length, d), d)

\* The passes the claim counts: one per element of the multiset.
ClaimedPasses == <<1, 1, 1, 2, 2, 2, 3, 3, 4, 5, 6>>

Scored == spc \in {"scored", "shown"}

\* C1: 11 passes are run, one per element of {1,1,1,2,2,2,3,3,4,5,6}, and
\* each frame's final score is the mean of the 11 pass scores, rounded to
\* one decimal.
C1_ElevenPassMean ==
    Scored =>
        /\ Len(all_score) = Len(ClaimedPasses)
        /\ final = MeanRounded([k \in 1..Len(ClaimedPasses) |-> SeriesFor(ClaimedPasses[k])])

\* C1, the scores alone: the final series is the mean weighted 3, 3, 2, 1, 1, 1.
FinalIsWeightedMean ==
    Scored =>
        final = MeanRounded([k \in 1..Len(ClaimedPasses) |-> SeriesFor(ClaimedPasses[k])])

\* C9 as stated: for every audio and video length the final series has one
\* score per frame of the track's crop, scores[i] computed from frame i.
C9_OneScorePerFrame ==
    Scored =>
        /\ Len(final) = cropLen
        /\ \A k \in 1..Len(srcFrames) : srcFrames[k] = FramesUpTo(cropLen)

\* C9, amended: the final series has one score per frame of the crop cut to
\* the common duration of audio and video, scores[i] computed from frame i
\* in every pass.  With A audio features and V crop frames that is V scores
\* when A >= 4V - 1, and otherwise A/4 rounded to a nearest integer, never
\* more than V.
C9_OneScorePerAlignedFrame ==
    /\ \A k \in 1..Len(all_score) :
          /\ Len(all_score[k]) = videoLen
          /\ srcFrames[k] = FramesUpTo(videoLen)
    /\ Scored =>
          /\ Len(final) = videoLen
          /\ Len(final) <= cropLen
          /\ audioIn * videoRate >= cropLen * audioRate - videoRate => Len(final) = cropLen
          /\ audioIn * videoRate < cropLen * audioRate - videoRate =>
                /\ 2 * (Len(final) * audioRate - audioIn * videoRate) <= audioRate
                /\ 2 * (audioIn * videoRate - Len(final) * audioRate) <= audioRate

\* A crop longer than its audio, scored in more than one window: fewer
\* scores than crop frames.
C9_Witness ==
    /\ spc = "scored"
    /\ audioIn * videoRate < cropLen * audioRate - videoRate
    /\ Len(final) > videoRate
    /\ Len(final) < cropLen

\* C10: the display score at local index i is the mean of exactly the scores
\* with indices j, max(i-2, 0) <= j < min(i+3, len(scores)-1); index
\* len(scores)-1 is in no window, and index 0 of a series of 5 takes [0, 3).
C10_SmoothingWindow ==
    spc = "shown" =>
        /\ \A i \in 0..(cropLen - 1) :
              LET J == {j \in 0..(Len(final) - 1) :
                           Max(i - 2, 0) <= j /\ j < Min(i + 3, Len(final) - 1)}
              IN  /\ shown[i + 1].idx = J
                  /\ shown[i + 1].n = Cardinality(J)
                  /\ shown[i + 1].sum = SumOver(J, [j \in J |-> final[j + 1]])
                  /\ (Len(final) - 1) \notin shown[i + 1].idx
        /\ Len(final) = 5 /\ cropLen = 5 => shown[1].idx = {0, 1, 2}

\* A series of 5 scores drawn: index 0 averaged [0, 3), index 4 averaged [2, 4).
C10_Witness ==
    /\ spc = "shown"
    /\ Len(final) = 5
    /\ cropLen = 5
    /\ shown[1].idx = {0, 1, 2}
    /\ shown[5].idx = {2, 3}
    /\ shown[5].n = 2

\* ----------------------------------------------------------- the run claims
\* C3: a media tool invocation that exits non-zero fails its stage: the
\* stage is the last one run, the working directory is gone and the failure
\* has been raised to run()'s caller.
C3_NonZeroExitIsFatal ==
    \A k \in 1..Len(exits) :
        exits[k][2] # 0 =>
            /\ Last(executed) = exits[k][1]
            /\ rpc = "failed"
            /\ ~dirExists
            /\ propagated # "none"

\* C4: once a stage has raised, no later stage was run, the working
\* directory does not exist and run() has raised that same exception.
C4_FailureCleansUpAndReraises ==
    raised # "none" =>
        /\ Last(executed) = raised
        /\ rpc = "failed"
        /\ ~dirExists
        /\ propagated = raised

\* evaluate_network raised after two tracks were cropped: the run failed.
C4_Witness ==
    /\ raised = "evaluate_network"
    /\ rpc = "failed"
    /\ cropped = 2
    /\ Len(executed) = 9
    /\ ~dirExists

====
